---- MODULE Spec2Model ----
(***************************************************************************)
(* The streaming loop of raspberry_camera.py (function main).              *)
(*                                                                         *)
(* Time is counted in ticks of 0.1 s: the intervals 0.5 s, 1.0 s and 3.0 s *)
(* of the source are 5, 10 and 30 ticks, time.sleep(0.1) is one tick and   *)
(* time.sleep(0.001) is below one tick (it lets 0..MaxLag ticks pass).     *)
(* args.fps is drawn from values whose frame interval 1.0/fps is a whole   *)
(* number of ticks.                                                        *)
(***************************************************************************)
EXTENDS Integers, Sequences, FiniteSets, TLC

VARIABLES
    pc,                     \* position of main() in its code
    now,                    \* the wall clock, what time.time() returns
    fps,                    \* args.fps
    picam_bound,            \* 'picam' in locals()
    opened,                 \* number of Picamera2() handles constructed
    released,               \* number of picam.stop() calls
    frame_interval,
    current_time,
    last_frame_time,
    last_status_check,
    frame_count,
    is_active,
    status_check_interval,
    current_source,         \* what the server's /api/status reports
    last_step,              \* the branch the last step of main() took
    slept,                  \* the time.sleep() argument of the last step, in ticks
    logged,                 \* the last step emitted the throughput log line
    capture_time,           \* timestamp of the latest frame capture
    switch_time,            \* when the server began reporting another camera
    since_switch,           \* what the polls since then have brought back
    revoked,                \* an upload answered is_active = false, and no
                            \* poll has named this camera since
    polled,                 \* what the poll timer did in the latest iteration,
                            \* given what it did in the one before
    exit_reason

vars == << pc, now, fps, picam_bound, opened, released, frame_interval,
           current_time, last_frame_time, last_status_check, frame_count,
           is_active, status_check_interval, current_source, last_step,
           slept, logged, capture_time, switch_time,
           since_switch, revoked, polled, exit_reason >>

----------------------------------------------------------------------------
\* Bounds of the model.

\* The clock stops at MaxTime ticks.
MaxTime == 61

\* Longest time, in ticks, a call that is answered or a 1 ms sleep takes.
MaxLag == 1

\* The uploads answered 200 that a run counts.
MaxFrames == 2

\* "No timestamp yet".
NoTime == 0 - 1

----------------------------------------------------------------------------
\* Constants of the program, in ticks of 0.1 s.

\* --camera-id, default 'camera_0'
camera_id == "camera_0"

\* The camera ids the server can name as current_source.
Sources == {"camera_0", "camera_1"}

\* --fps: the values with a whole number of ticks per frame.
FpsChoices == {5, 10}

\* status_check_interval = 1.0
InitialStatusInterval == 10

\* 0.5 if not is_active
InactiveStatusInterval == 5

\* else 3.0
ActiveStatusInterval == 30

\* requests.get / requests.post timeout=1.0
RequestTimeout == 10

\* time.sleep(0.1)
InactiveSleep == 1

\* time.sleep(1.0)
RetrySleep == 10

\* time.sleep(2)
WarmupSleep == 20

\* frame_count % 30
LogEvery == 30

----------------------------------------------------------------------------
\* The pure computations of the loop.

\* frame_interval = 1.0 / args.fps
FrameIntervalOf(f) == 10 \div f

\* current_time - last_status_check >= status_check_interval
PollDue(ct, lsc, interval) == ct - lsc >= interval

\* Mutant: the comparison inverted.
ActiveFromStatusInverted(src) == src # camera_id

\* is_active = status_data['current_source'] == camera_id
ActiveFromStatus(src) == src = camera_id

\* status_check_interval = 0.5 if not is_active else 3.0
IntervalFor(active) ==
    IF ~active THEN InactiveStatusInterval ELSE ActiveStatusInterval

\* Mutant: the gate lets an inactive camera through.
GateNeverClosed(active) == FALSE

\* if not is_active: sleep, continue
GateClosed(active) == ~active

\* Mutant: the pacing test is one tick short.
TooEarlyOffByOne(elapsed, fi) == elapsed < fi - 1

\* if elapsed < frame_interval: sleep, continue
TooEarly(elapsed, fi) == elapsed < fi

\* The JSON objects an upload answers with: is_active absent, or present
\* with a true, false or null value.
UploadBodies == [present : BOOLEAN, value : {"true", "false", "null"}]

\* 'is_active' in resp_data and not resp_data['is_active']
Revokes(body) == body.present /\ body.value \in {"false", "null"}

\* Mutant: the log line comes one frame late.
LogDueOneLate(fc) == fc % LogEvery = 1

\* frame_count % 30 == 0
LogDue(fc) == fc % LogEvery = 0

\* How long a request takes: an answer arrives within MaxLag; a transport
\* failure is immediate (connection refused) or takes the whole timeout.
AnswerLags == 0..MaxLag
FailureLags == {0, RequestTimeout}

\* The outcomes of GET /api/status: 200 with a current_source field, 200
\* with a JSON body lacking it, another status code, or an exception
\* (timeout, connection error, a body that is not JSON).
PollOutcomes == {"ok_source", "ok_nofield", "non200", "error"}

\* Mutant: a poll can activate the camera and never deactivates it.
ActiveLatchedAfterPoll(outcome, active, src) ==
    IF outcome = "ok_source" THEN active \/ ActiveFromStatus(src) ELSE active

\* Mutant: a poll that raises deactivates the camera.
ActiveClearedByFailedPoll(outcome, active, src) ==
    CASE outcome = "ok_source" -> ActiveFromStatus(src)
      [] outcome = "error" -> FALSE
      [] OTHER -> active

\* Mutant: the field is read with .get(), a missing one compares unequal.
ActiveWithoutFieldCleared(outcome, active, src) ==
    CASE outcome = "ok_source" -> ActiveFromStatus(src)
      [] outcome = "ok_nofield" -> FALSE
      [] OTHER -> active

\* is_active after the poll
ActiveAfterPoll(outcome, active, src) ==
    IF outcome = "ok_source" THEN ActiveFromStatus(src) ELSE active

\* Mutant: the interval is assigned in the except branch too.
IntervalAlwaysReevaluated(outcome, activeAfter, interval) ==
    IntervalFor(activeAfter)

\* status_check_interval after the poll: the except branch does not reach
\* the assignment
IntervalAfterPoll(outcome, activeAfter, interval) ==
    IF outcome = "error" THEN interval ELSE IntervalFor(activeAfter)

\* Mutant: the revocation in the upload response is ignored.
ActiveKeptAfterUpload(body, active) == active

\* Mutant: is_active is taken from the response, absent meaning false.
ActiveTakenFromUpload(body, active) == body.present /\ body.value = "true"

\* is_active after an upload answered 200 with a JSON object
ActiveAfterUpload(body, active) == IF Revokes(body) THEN FALSE ELSE active

\* Mutant: a poll that raises does not restart the poll timer.
StatusCheckKeptOnError(outcome, ct, lsc) ==
    IF outcome = "error" THEN lsc ELSE ct

\* last_status_check = current_time, after the poll and in its except branch
StatusCheckedAt(outcome, ct, lsc) == ct

----------------------------------------------------------------------------
\* What the poll timer did in an iteration: "no" poll, a poll "answered"
\* 200 or one that "failed" (non-200, exception); and the same with
\* "_again" when the iteration before ended its own poll in a failure.

FailedPolls == {"failed", "failed_again"}

PolledAfter(outcome, before) ==
    LET failed == outcome \in {"non200", "error"}
    IN  CASE before \in FailedPolls /\ failed -> "failed_again"
          [] before \in FailedPolls /\ ~failed -> "answered_again"
          [] before \notin FailedPolls /\ failed -> "failed"
          [] OTHER -> "answered"

----------------------------------------------------------------------------
\* What the polls since the server's switch have brought back.

SwitchAfterPoll(outcome, s) ==
    CASE s = "pending" /\ outcome = "ok_source" -> "reported"
      [] s = "pending" /\ outcome # "ok_source" -> "lost"
      [] OTHER -> s

\* The positions inside the try block, and inside the while loop.
LoopPcs == {"top", "status", "gate", "pace", "capture", "upload", "mark"}
TryPcs == {"construct", "configure", "enter"} \cup LoopPcs

----------------------------------------------------------------------------
Init ==
    /\ pc = "construct"
    /\ now = 0
    /\ fps \in FpsChoices
    /\ picam_bound = FALSE
    /\ opened = 0
    /\ released = 0
    /\ frame_interval = 0
    /\ current_time = NoTime
    /\ last_frame_time = NoTime
    /\ last_status_check = NoTime
    /\ frame_count = 0
    /\ is_active = FALSE
    /\ status_check_interval = 0
    /\ current_source \in Sources
    /\ last_step = "start"
    /\ slept = 0
    /\ logged = FALSE
    /\ capture_time = NoTime
    /\ switch_time = NoTime
    /\ since_switch = "-"
    /\ revoked = FALSE
    /\ polled = "no"
    /\ exit_reason = "-"

loopVars == << frame_interval, current_time, last_frame_time,
               last_status_check, frame_count, is_active,
               status_check_interval >>
camVars == << picam_bound, opened, released >>
histVars == << capture_time, revoked, polled >>
envVars == << current_source, switch_time >>

\* picam = Picamera2(): the handle is bound, or the constructor raises
Construct ==
    /\ pc = "construct"
    /\ \/ /\ picam_bound' = TRUE
          /\ opened' = opened + 1
          /\ pc' = "configure"
          /\ last_step' = "constructed"
          /\ exit_reason' = exit_reason
       \/ /\ UNCHANGED << picam_bound, opened >>
          /\ pc' = "finally"
          /\ last_step' = "construct_failed"
          /\ exit_reason' = "error"
    /\ slept' = 0
    /\ logged' = FALSE
    /\ UNCHANGED << now, fps, released, loopVars, histVars, envVars,
                    since_switch >>

\* picam.configure(...); set_controls(...); start(); time.sleep(2)
Configure ==
    /\ pc = "configure"
    /\ \/ /\ now' = now + WarmupSleep
          /\ slept' = WarmupSleep
          /\ pc' = "enter"
          /\ last_step' = "configured"
          /\ exit_reason' = exit_reason
       \/ /\ now' = now
          /\ slept' = 0
          /\ pc' = "finally"
          /\ last_step' = "configure_failed"
          /\ exit_reason' = "error"
    /\ logged' = FALSE
    /\ UNCHANGED << fps, camVars, loopVars, histVars, envVars, since_switch >>

\* frame_interval = 1.0 / args.fps ... status_check_interval = 1.0
EnterLoop ==
    /\ pc = "enter"
    /\ frame_interval' = FrameIntervalOf(fps)
    /\ last_frame_time' = now
    /\ last_status_check' = now
    /\ frame_count' = 0
    /\ is_active' = FALSE
    /\ status_check_interval' = InitialStatusInterval
    /\ pc' = "top"
    /\ last_step' = "entered"
    /\ slept' = 0
    /\ logged' = FALSE
    /\ UNCHANGED << now, fps, camVars, current_time, histVars, envVars,
                    since_switch, exit_reason >>

\* while True: current_time = time.time()
LoopTop ==
    /\ pc = "top"
    /\ current_time' = now
    /\ pc' = "status"
    /\ last_step' = "top"
    /\ slept' = 0
    /\ logged' = FALSE
    /\ UNCHANGED << now, fps, camVars, frame_interval, last_frame_time,
                    last_status_check, frame_count, is_active,
                    status_check_interval, histVars, envVars, since_switch,
                    exit_reason >>

\* if current_time - last_status_check >= status_check_interval: try: GET
\* /api/status ... except Exception; otherwise nothing
StatusCheck ==
    /\ pc = "status"
    /\ \/ /\ ~PollDue(current_time, last_status_check, status_check_interval)
          /\ last_step' = "poll_skipped"
          /\ polled' = "no"
          /\ UNCHANGED << now, is_active, status_check_interval,
                          last_status_check, since_switch, revoked >>
       \/ /\ PollDue(current_time, last_status_check, status_check_interval)
          /\ \E outcome \in PollOutcomes :
             \E lag \in (IF outcome = "error" THEN FailureLags ELSE AnswerLags) :
                /\ now + lag <= MaxTime
                /\ now' = now + lag
                /\ is_active' = ActiveAfterPoll(outcome, is_active, current_source)
                /\ status_check_interval' =
                       IntervalAfterPoll(outcome, is_active', status_check_interval)
                /\ last_status_check' =
                       StatusCheckedAt(outcome, current_time, last_status_check)
                /\ polled' = PolledAfter(outcome, polled)
                /\ since_switch' = SwitchAfterPoll(outcome, since_switch)
                /\ revoked' = (revoked /\ ~(outcome = "ok_source"
                                              /\ current_source = camera_id))
                /\ last_step' =
                       CASE outcome = "ok_source" /\ current_source = camera_id
                             -> "poll_match"
                         [] outcome = "ok_source" /\ current_source # camera_id
                             -> "poll_other"
                         [] outcome = "ok_nofield" -> "poll_nofield"
                         [] outcome = "non200" -> "poll_non200"
                         [] OTHER -> "poll_error"
    /\ pc' = "gate"
    /\ slept' = 0
    /\ logged' = FALSE
    /\ UNCHANGED << fps, camVars, frame_interval, current_time,
                    last_frame_time, frame_count, capture_time, envVars,
                    exit_reason >>

\* if not is_active: time.sleep(0.1); continue
ActivationGate ==
    /\ pc = "gate"
    /\ \/ /\ GateClosed(is_active)
          /\ now + InactiveSleep <= MaxTime
          /\ now' = now + InactiveSleep
          /\ slept' = InactiveSleep
          /\ pc' = "top"
          /\ last_step' = "idle"
       \/ /\ ~GateClosed(is_active)
          /\ now' = now
          /\ slept' = 0
          /\ pc' = "pace"
          /\ last_step' = "gate_open"
    /\ logged' = FALSE
    /\ UNCHANGED << fps, camVars, loopVars, histVars, envVars, since_switch,
                    exit_reason >>

\* elapsed = current_time - last_frame_time
\* if elapsed < frame_interval: time.sleep(0.001); continue
PacingGate ==
    /\ pc = "pace"
    /\ \/ /\ TooEarly(current_time - last_frame_time, frame_interval)
          /\ \E lag \in 0..MaxLag :
                /\ now + lag <= MaxTime
                /\ now' = now + lag
          /\ pc' = "top"
          /\ last_step' = "paced"
       \/ /\ ~TooEarly(current_time - last_frame_time, frame_interval)
          /\ now' = now
          /\ pc' = "capture"
          /\ last_step' = "frame_due"
    /\ slept' = 0
    /\ logged' = FALSE
    /\ UNCHANGED << fps, camVars, loopVars, histVars, envVars, since_switch,
                    exit_reason >>

\* frame = picam.capture_array(); cvtColor; imencode; b64encode: done
\* within the tick, or one of them raises and the outer except Exception
\* ends the loop
Capture ==
    /\ pc = "capture"
    /\ capture_time' = current_time
    /\ \/ /\ pc' = "upload"
          /\ last_step' = "captured"
          /\ exit_reason' = exit_reason
       \/ /\ pc' = "finally"
          /\ last_step' = "capture_failed"
          /\ exit_reason' = "error"
    /\ slept' = 0
    /\ logged' = FALSE
    /\ UNCHANGED << now, fps, camVars, loopVars, revoked, polled, envVars,
                    since_switch >>

\* The outcomes of POST /receive_camera_frame: 200 with a JSON object, another
\* status code, a transport failure (timeout, connection refused), 200 with
\* a body that is not JSON, 200 with JSON that is no container (a number,
\* null).
UploadOutcomes == {"ok", "non200", "transport", "unparsable", "non_object"}

\* The values of frame_count a run is followed through: the first
\* MaxFrames counted uploads, and the ones around the LogEvery-th.
FrameCounts == (0..MaxFrames) \cup ((LogEvery - MaxFrames)..(LogEvery + 1))

\* Mutant: the frame is counted whatever the outcome.
CountEveryUpload(outcome, fc) == fc + 1

\* frame_count += 1 follows response.json() on status 200
CountAfterUpload(outcome, fc) ==
    IF outcome \in {"ok", "non_object"} THEN fc + 1 ELSE fc

\* try: requests.post(...) ... except requests.exceptions.RequestException
\* response.json() on a body that is not JSON raises a RequestException
\* subclass in requests >= 2.27 and a plain ValueError before: caught here,
\* or left to the outer except Exception.  'is_active' in resp_data raises
\* TypeError when resp_data is no container.
Upload ==
    /\ pc = "upload"
    /\ \E outcome \in UploadOutcomes, body \in UploadBodies, caught \in BOOLEAN :
       \E lag \in (IF outcome = "transport" THEN FailureLags ELSE AnswerLags) :
          LET raised == outcome = "transport" \/ (outcome = "unparsable" /\ caught)
              fatal == outcome = "non_object" \/ (outcome = "unparsable" /\ ~caught)
              pause == IF raised THEN RetrySleep ELSE 0
          IN  /\ outcome # "ok" => body = [present |-> FALSE, value |-> "null"]
              /\ outcome # "unparsable" => caught
              /\ now + lag + pause <= MaxTime
              /\ CountAfterUpload(outcome, frame_count) \in FrameCounts
              /\ now' = now + lag + pause
              /\ slept' = pause
              /\ frame_count' = CountAfterUpload(outcome, frame_count)
              /\ is_active' = IF outcome = "ok"
                                 THEN ActiveAfterUpload(body, is_active)
                                 ELSE is_active
              /\ revoked' = (revoked \/ (outcome = "ok" /\ body.present
                                                     /\ body.value = "false"))
              /\ logged' = (outcome = "ok" /\ LogDue(frame_count'))
              /\ pc' = IF fatal THEN "finally" ELSE "mark"
              /\ exit_reason' = IF fatal THEN "error" ELSE exit_reason
              /\ last_step' =
                     CASE outcome = "ok" /\ ~body.present -> "up_200_plain"
                       [] outcome = "ok" /\ body.present /\ body.value = "true"
                             -> "up_200_active"
                       [] outcome = "ok" /\ body.present /\ body.value = "false"
                             -> "up_200_revoked"
                       [] outcome = "ok" /\ body.present /\ body.value = "null"
                             -> "up_200_null"
                       [] outcome = "non200" -> "up_non200"
                       [] outcome = "transport" -> "up_transport"
                       [] outcome = "unparsable" /\ caught -> "up_unparsable_caught"
                       [] outcome = "unparsable" /\ ~caught -> "up_unparsable_fatal"
                       [] OTHER -> "up_non_object_fatal"
    /\ UNCHANGED << fps, camVars, frame_interval, current_time,
                    last_frame_time, last_status_check,
                    status_check_interval, capture_time, polled, envVars,
                    since_switch >>

\* last_frame_time = current_time
MarkFrame ==
    /\ pc = "mark"
    /\ last_frame_time' = current_time
    /\ pc' = "top"
    /\ last_step' = "marked"
    /\ slept' = 0
    /\ logged' = FALSE
    /\ UNCHANGED << now, fps, camVars, frame_interval, current_time,
                    last_status_check, frame_count, is_active,
                    status_check_interval, histVars, envVars, since_switch,
                    exit_reason >>

\* except KeyboardInterrupt: the user's interrupt, anywhere in the try block
Interrupt ==
    /\ pc \in TryPcs
    /\ pc' = "finally"
    /\ exit_reason' = "interrupt"
    /\ last_step' = "interrupted"
    /\ slept' = 0
    /\ logged' = FALSE
    /\ UNCHANGED << now, fps, camVars, loopVars, histVars, envVars,
                    since_switch >>

\* Mutant: the camera is stopped in the interrupt handler only.
FinallyAfterInterruptOnly ==
    /\ pc = "finally"
    /\ released' = IF picam_bound /\ exit_reason = "interrupt"
                      THEN released + 1
                      ELSE released
    /\ pc' = "done"
    /\ last_step' = "finished"
    /\ slept' = 0
    /\ logged' = FALSE
    /\ UNCHANGED << now, fps, picam_bound, opened, frame_interval,
                    current_time, last_frame_time, last_status_check,
                    frame_count, is_active, status_check_interval,
                    capture_time, revoked, polled, current_source, switch_time,
                    since_switch, exit_reason >>

\* finally: if 'picam' in locals(): picam.stop()
Finally ==
    /\ pc = "finally"
    /\ released' = IF picam_bound THEN released + 1 ELSE released
    /\ pc' = "done"
    /\ last_step' = "finished"
    /\ slept' = 0
    /\ logged' = FALSE
    /\ UNCHANGED << now, fps, picam_bound, opened, loopVars, histVars,
                    envVars, since_switch, exit_reason >>

\* The server, not this program: it makes another camera the current
\* source, or this one again.
ServerSwitch ==
    /\ pc \in LoopPcs
    /\ \E src \in Sources \ {current_source} :
          /\ current_source' = src
          /\ switch_time' = IF src = camera_id THEN NoTime ELSE now
          /\ since_switch' = IF src = camera_id THEN "-" ELSE "pending"
    /\ UNCHANGED << pc, now, fps, camVars, loopVars, histVars, last_step,
                    slept, logged, exit_reason >>

Next ==
    \/ Construct
    \/ Configure
    \/ EnterLoop
    \/ LoopTop
    \/ StatusCheck
    \/ ActivationGate
    \/ PacingGate
    \/ Capture
    \/ Upload
    \/ MarkFrame
    \/ Interrupt
    \/ Finally
    \/ ServerSwitch

Spec == Init /\ [][Next]_vars

\* The loop as it stands, at the top of an iteration, after its first
\* LogEvery - MaxFrames frames: started with --fps 10, activated by the
\* first poll (one InitialStatusInterval after the warm-up) and every frame
\* since captured one frame_interval after the one before and answered 200
\* at once.
FramesBefore == LogEvery - MaxFrames
InitAfterFrames ==
    LET firstPoll == WarmupSleep + InitialStatusInterval
        marked == firstPoll + (FramesBefore - 1) * FrameIntervalOf(10)
    IN  /\ pc = "top"
        /\ now = marked
        /\ fps = 10
        /\ picam_bound = TRUE
        /\ opened = 1
        /\ released = 0
        /\ frame_interval = FrameIntervalOf(10)
        /\ current_time = marked
        /\ last_frame_time = marked
        /\ last_status_check = firstPoll
        /\ frame_count = FramesBefore
        /\ is_active = TRUE
        /\ status_check_interval = ActiveStatusInterval
        /\ current_source = camera_id
        /\ last_step = "marked"
        /\ slept = 0
        /\ logged = FALSE
        /\ capture_time = marked
        /\ switch_time = NoTime
        /\ since_switch = "-"
        /\ revoked = FALSE
        /\ polled = "no"
        /\ exit_reason = "-"

\* main() from its start, and from the state above.
SpecFrames == (Init \/ InitAfterFrames) /\ [][Next]_vars

\* main() is one thread: whatever statement it stands at, it executes
\* (the requests and the sleeps are bounded).  The interrupt and the server
\* are not its steps.
MainStep ==
    \/ Construct
    \/ Configure
    \/ EnterLoop
    \/ LoopTop
    \/ StatusCheck
    \/ ActivationGate
    \/ PacingGate
    \/ Capture
    \/ Upload
    \/ MarkFrame
    \/ Finally

\* time.sleep(0.001) takes time: of the pacing sleeps of a run, some end on
\* a later tick of the clock.
TimePasses == PacingGate /\ now' > now

\* main() scheduled fairly, with time advancing.
SpecFair == Init /\ [][Next]_vars /\ WF_vars(MainStep) /\ SF_vars(TimePasses)

----------------------------------------------------------------------------
\* The steps a status poll attempt can end with.
PollAnswered == {"poll_match", "poll_other", "poll_nofield", "poll_non200"}
PollAttempted == PollAnswered \cup {"poll_error"}

\* The step taken is a status poll attempt / an upload attempt.
PollStep == pc = "status" /\ last_step' \in PollAttempted
UploadStep == pc = "upload" /\ pc' \in {"mark", "finally"} /\ last_step' # "interrupted"

\* C1: a frame is captured, and an upload POST is issued, only in an
\* iteration whose activation gate found is_active true: wherever the loop
\* stands before the capture or before the POST, is_active is true.
C1_CaptureOnlyWhenActive ==
    pc \in {"pace", "capture", "upload"} => is_active

\* C1 witness: a frame has been captured and its POST is about to be issued.
C1_Witness == pc = "upload" /\ last_step = "captured" /\ is_active

\* C2: a poll answered 200 naming this camera sets is_active; one naming
\* another camera clears it; a failed poll (exception, non-200) leaves it
\* as it was, and the loop goes on to the activation gate.
C2_PollDecidesActive ==
    [][PollStep =>
          /\ last_step' = "poll_match" => is_active' = TRUE
          /\ last_step' = "poll_other" => is_active' = FALSE
          /\ last_step' \in {"poll_non200", "poll_error"} =>
                 is_active' = is_active /\ pc' = "gate"]_vars

\* C2 witness: a poll failed while the camera was active, and it still is.
C2_Witness == last_step = "poll_error" /\ pc = "gate" /\ is_active

\* The interval the spec gives for an activation state.
SpecInterval(active) ==
    IF active THEN ActiveStatusInterval ELSE InactiveStatusInterval

\* C3: everywhere in the streaming loop, from loop entry on and also right
\* after a revocation in an upload response, status_check_interval is 0.5 s
\* while is_active is false and 3.0 s while it is true.
C3_IntervalTracksActive ==
    pc \in LoopPcs => status_check_interval = SpecInterval(is_active)

C5_RevocationStopsUploads ==
    revoked => (~is_active /\ pc \notin {"pace", "capture", "upload"})

\* C5 witness: the upload step has just been answered with the revocation.
C5_Witness ==
    /\ last_step = "up_200_revoked"
    /\ pc = "mark"
    /\ revoked
    /\ ~is_active

\* C6: an upload answered 200 without an is_active field, or with
\* is_active true, changes neither is_active nor status_check_interval.
C6_PlainUploadKeepsState ==
    [][(UploadStep /\ last_step' \in {"up_200_plain", "up_200_active"}) =>
          /\ is_active' = is_active
          /\ status_check_interval' = status_check_interval]_vars

\* C6 witness: an upload was answered 200 without the field, still active.
C6_Witness == last_step = "up_200_plain" /\ pc = "mark" /\ is_active

\* C7: an upload that ends in a non-200 status or in a transport failure
\* changes neither is_active nor frame_count and the loop goes on (to the
\* last_frame_time update and the next iteration); the transport failure
\* also sleeps RetrySleep (1.0 s) first.
C7_FailedUploadKeepsState ==
    [][(UploadStep /\ last_step' \in {"up_non200", "up_transport"}) =>
          /\ is_active' = is_active
          /\ frame_count' = frame_count
          /\ pc' = "mark"
          /\ last_step' = "up_transport" =>
                 slept' = RetrySleep /\ now' >= now + RetrySleep]_vars

\* C7 witness: an upload has failed in transport while the camera is
\* active with frames already counted.
C7_Witness ==
    /\ last_step = "up_transport"
    /\ pc = "mark"
    /\ is_active
    /\ frame_count > 0
    /\ slept = RetrySleep

\* C8: the timestamps of two consecutive frame captures are at least
\* frame_interval apart, whatever happened between them.
C8_CapturesSpaced ==
    [][(pc = "capture" /\ last_step' \in {"captured", "capture_failed"}
            /\ capture_time # NoTime) =>
          capture_time' - capture_time >= frame_interval]_vars

\* C8 witness: a second capture exactly frame_interval after the one
\* before it, whose upload was answered 200.
C8_Witness ==
    /\ last_step = "captured"
    /\ frame_count >= 1
    /\ capture_time - last_frame_time = frame_interval

\* C9: the camera handle is opened at most once; once main() has ended it
\* has been released exactly as often as it was opened; and a release
\* happens only as main() ends, so no capture, poll or upload follows it.
C9_ReleasedExactlyOnce ==
    /\ opened <= 1
    /\ released <= opened
    /\ pc = "done" => released = opened
    /\ released >= 1 => pc = "done"

\* C9 witness: main() has ended on an exception raised inside the loop,
\* with the handle opened and released once.
C9_Witness ==
    /\ pc = "done"
    /\ exit_reason = "error"
    /\ capture_time # NoTime
    /\ opened = 1
    /\ released = 1

\* C10: while the status endpoint reports another camera and every poll
\* since it began to has been answered with that report, a POST is issued
\* only in iterations whose timestamp is at most ActiveStatusInterval
\* (3.0 s) after the report began; once a poll has brought the report, the
\* camera is inactive and polls every 0.5 s.
C10_StopsWithinOnePollInterval ==
    /\ (since_switch \in {"pending", "reported"} /\ pc = "upload") =>
           /\ since_switch = "pending"
           /\ current_time - switch_time <= ActiveStatusInterval
    /\ since_switch = "reported" =>
           ~is_active /\ status_check_interval = InactiveStatusInterval

\* C10 witness: the poll has brought the report of another camera to a
\* client that captured frames after the server switched.
C10_Witness ==
    /\ since_switch = "reported"
    /\ last_step = "poll_other"
    /\ capture_time > switch_time
    /\ ~is_active
    /\ status_check_interval = InactiveStatusInterval

\* The steps with which the camera layer ends main().
CameraFaults == {"construct_failed", "configure_failed", "capture_failed"}

\* C11: no poll outcome and no upload outcome ends the streaming loop: when
\* main() leaves its try block, it does so on the user's interrupt or on a
\* fault of the camera layer.
C11_OnlyCameraFaultOrInterruptEndsLoop ==
    pc = "finally" => last_step \in CameraFaults \cup {"interrupted"}

\* The loop steps that change is_active, by the direction of the change.
Activates == pc \in LoopPcs /\ ~is_active /\ is_active'
Deactivates == pc \in LoopPcs /\ is_active /\ ~is_active'

\* C12 as stated: is_active is false at loop entry; it goes from false to
\* true only in a poll answered 200 naming this camera, and from true to
\* false only in a poll answered 200 naming another camera or in an upload
\* answered 200 with is_active = false.
C12_OnlyStatedTransitions ==
    [][/\ pc = "enter" => ~is_active'
       /\ Activates => PollStep /\ last_step' = "poll_match"
       /\ Deactivates =>
              \/ PollStep /\ last_step' = "poll_other"
              \/ UploadStep /\ last_step' = "up_200_revoked"]_vars

\* C12 amended: as stated, except that the upload answered 200 deactivates
\* the camera when its is_active field is false or any other falsy value
\* (null, 0): the code tests the field's truthiness.
C12_OnlyTruthinessTransitions ==
    [][/\ pc = "enter" => ~is_active'
       /\ Activates => PollStep /\ last_step' = "poll_match"
       /\ Deactivates =>
              \/ PollStep /\ last_step' = "poll_other"
              \/ UploadStep /\ last_step' \in {"up_200_revoked", "up_200_null"}]_vars

\* C12 witness: an upload answered 200 with is_active null has deactivated
\* the camera.
C12_Witness == last_step = "up_200_null" /\ pc = "mark" /\ ~is_active

\* The steps an upload attempt can end with: answered 200, answered with
\* another status, failed in transport.
UploadAnswered200 ==
    {"up_200_plain", "up_200_active", "up_200_revoked", "up_200_null",
     "up_unparsable_caught", "up_unparsable_fatal", "up_non_object_fatal"}
UploadEnded == UploadAnswered200 \cup {"up_non200", "up_transport"}

\* C13: an iteration that has captured a frame goes on, whatever the
\* outcome of its upload (200, non-200, transport failure), to set
\* last_frame_time to the iteration's timestamp; no other step of the loop,
\* and so no iteration that skips the capture, changes last_frame_time.
C13_FrameTimeSetAfterEveryCapture ==
    [][/\ (UploadStep /\ last_step' \in UploadEnded) => pc' = "mark"
       /\ (pc = "mark" /\ pc' = "top") =>
              last_frame_time' = current_time /\ capture_time = current_time
       /\ (pc \in LoopPcs /\ pc # "mark") =>
              last_frame_time' = last_frame_time]_vars

\* The upload steps on which the code counts a frame, and logs.
UploadCounted == {"up_200_plain", "up_200_active", "up_200_revoked",
                  "up_200_null", "up_non_object_fatal"}
UploadCanLog == UploadCounted \ {"up_non_object_fatal"}

C16_FailedPollNeverRepeatedAtOnce ==
    [][/\ PollStep =>
              /\ last_status_check' = current_time
              /\ current_time - last_status_check >= status_check_interval
              /\ polled \notin FailedPolls
       /\ (pc \in LoopPcs /\ ~PollStep) =>
              /\ last_status_check' = last_status_check
              /\ status_check_interval' = status_check_interval]_vars

\* C16 amended: the same without its last part.  A poll that failed is
\* followed by a poll in the very next iteration whenever the iteration of
\* the failed poll lasted status_check_interval or longer (a poll that runs
\* into its 1.0 s timeout while the interval is 0.5 s or 1.0 s).
C16_PollsSpacedByInterval ==
    [][/\ PollStep =>
              /\ last_status_check' = current_time
              /\ current_time - last_status_check >= status_check_interval
       /\ (pc \in LoopPcs /\ ~PollStep) =>
              /\ last_status_check' = last_status_check
              /\ status_check_interval' = status_check_interval]_vars

\* C16 witness: two iterations in a row have polled and failed, the second
\* one at least status_check_interval after the first.
C16_Witness ==
    /\ polled = "failed_again"
    /\ pc = "gate"
    /\ last_step \in {"poll_error", "poll_non200"}
    /\ last_status_check = current_time

\* From some point on the server names this camera in every poll answer and
\* revokes in no upload answer.
ServerSteady ==
    /\ PollStep => last_step' = "poll_match"
    /\ UploadStep => last_step' # "up_200_revoked"

\* C15: in a run of main() that is never interrupted, in which the camera
\* layer raises no fault, and in which from some point on every poll is
\* answered 200 naming this camera and no upload answer carries is_active =
\* false, uploads are issued again and again, for as long as the clock of
\* the model runs (up to MaxTime).
C15_SteadyServerKeepsUploads ==
    ([](last_step \notin CameraFaults \cup {"interrupted"})
        /\ <>[][ServerSteady]_vars)
    => ([]<><<UploadStep>>_vars \/ <>(now = MaxTime))

====
